---- MODULE Spec2Model ----
(***************************************************************************)
(* A model of wavpatcher.py: the scan loop of patch_wav_files, which reads *)
(* the format tag at byte offset 20 of every discovered *.wav file and, in *)
(* patch mode, overwrites WAV_EXTENSIBLE (65534) by PCM (1), and the CLI   *)
(* front end main() that validates the directory argument, calls the scan  *)
(* and turns its result into an exit code.                                 *)
(*                                                                         *)
(* The file system is the environment: a tree of entries (regular files    *)
(* and directories, with a name that ends in ".wav" or not, permission     *)
(* bits and bytes) and I/O faults that open, seek, read and write may      *)
(* raise on the paths of the set flaky.  Nothing else touches the tree     *)
(* while the program runs (the program is single-threaded and the model    *)
(* has no concurrent writer).  A failing write leaves the file as it was.  *)
(***************************************************************************)
EXTENDS Integers, Sequences, FiniteSets, TLC

VARIABLES
    argv,               \* "ok": the command line parses; "usage": argparse rejects it
    dirKind,            \* what the directory argument names: "missing", "notdir", "dir"
    args,               \* the parsed options: [patch, quiet, list]
    caller,             \* "main": the CLI; "api": patch_wav_files called directly
    tree0,              \* the tree as first given (the source of a fresh copy)
    before,             \* the tree when the current call of patch_wav_files began
    disk,               \* the tree now: a sequence of entries, a path is an index
    flaky,              \* the paths whose I/O may raise an error in the current call
    simulate, verbose,  \* the parameters of patch_wav_files
    pc,                 \* "main", "call", "loop", "returned", "exit"
    wav_files, total_files, extensible_files, patched_file_list, idx,
    result,             \* the dictionary patch_wav_files returned, NoResult before
    exitCode,           \* the value main returned to sys.exit, -1 before
    trace,              \* the I/O events and printed lines of the current call
    second, fresh,      \* this is a second call; it runs on a fresh copy of tree0
    prev                \* what the first call left: its mode, result, tree and errors

vars == <<argv, dirKind, args, caller, tree0, before, disk, flaky, simulate,
          verbose, pc, wav_files, total_files, extensible_files,
          patched_file_list, idx, result, exitCode, trace, second, fresh, prev>>

----
\* Program constants.

TagOffset == 20
TagLen == 2
WAV_EXTENSIBLE == 65534
ProgressEvery == 100
\* A mutation of PCM_BYTES: the tag is encoded big-endian.
PCM_BYTES_BE == <<0, 1>>

\* b'\x01\x00', the bytes written over the tag.
PCM_BYTES == <<1, 0>>

\* Bounds of the model.
MaxFiles == 2

Min(a, b) == IF a < b THEN a ELSE b
Max(a, b) == IF a > b THEN a ELSE b

----
\* The file system.

\* The first 20 bytes of a canonical header ("RIFF", size, "WAVE", "fmt ", 16).
Hdr == <<82, 73, 70, 70, 36, 8, 0, 0, 87, 65, 86, 69, 102, 109, 116, 32, 16, 0, 0, 0>>

Entry(wav, kind, perm, data) ==
    [wav |-> wav, kind |-> kind, perm |-> perm, data |-> data]

ExtTrail   == Entry(TRUE,  "file", "rw",   Hdr \o <<254, 255, 2>>)
ExtRO      == Entry(TRUE,  "file", "r",    Hdr \o <<254, 255>>)
PcmFile    == Entry(TRUE,  "file", "rw",   Hdr \o <<1, 0, 2>>)
Short21    == Entry(TRUE,  "file", "rw",   Hdr \o <<254>>)
Swapped    == Entry(TRUE,  "file", "rw",   Hdr \o <<255, 254>>)
EmptyWav   == Entry(TRUE,  "file", "rw",   <<>>)
WavDir     == Entry(TRUE,  "dir",  "rw",   <<>>)
OtherExt   == Entry(FALSE, "file", "rw",   Hdr \o <<254, 255>>)
ExtNoPerm  == Entry(TRUE,  "file", "none", Hdr \o <<254, 255>>)

EntryKinds ==
    {ExtTrail, ExtRO, ExtNoPerm, PcmFile, Short21, Swapped, EmptyWav, WavDir, OtherExt}

Trees == UNION {[1..n -> EntryKinds] : n \in 0..MaxFiles}

\* The I/O step at which the environment raises an error on a flaky path.
Faults == {"none", "open", "seek", "read", "write"}

----
\* File operations, as the Python runtime performs them.

\* f.read(n) at position pos: the bytes that exist, at most n of them.
ReadAt(data, pos, n) == SubSeq(data, pos + 1, Min(pos + n, Len(data)))

\* int.from_bytes(bs, byteorder='little', signed=False); 0 for b''.
RECURSIVE FromBytesLE(_)
FromBytesLE(bs) ==
    IF bs = <<>> THEN 0 ELSE Head(bs) + 256 * FromBytesLE(Tail(bs))

\* f.write(bs) at position pos: overwrites, extends the file where it ends,
\* and fills a gap between the end of the file and pos with zeros.
WriteAt(data, pos, bs) ==
    [i \in 1..Max(Len(data), pos + Len(bs)) |->
        IF i > pos /\ i <= pos + Len(bs) THEN bs[i - pos]
        ELSE IF i <= Len(data) THEN data[i] ELSE 0]

\* open(path, rwmode): the error it raises, "none" when it succeeds.
OpenError(e, rwmode) ==
    IF e.kind = "dir" THEN "IsADirectoryError"
    ELSE IF e.perm = "none" THEN "PermissionError"
    ELSE IF rwmode = "rb+" /\ e.perm = "r" THEN "PermissionError"
    ELSE "none"

\* process_dir.rglob('*.wav'): the paths whose name ends in ".wav", in
\* traversal order (a directory of that name is one of them).
RGlob(t) ==
    LET IsWav(i) == t[i].wav
    IN  SelectSeq([i \in 1..Len(t) |-> i], IsWav)

----
\* One event of a call: an I/O operation, an exception or a printed line.
Ev(ev, what, path, n, of, bytes) ==
    [ev |-> ev, what |-> what, path |-> path, n |-> n, of |-> of, bytes |-> bytes]

Line(what, path, n, of) == Ev("print", what, path, n, of, <<>>)

NoResult == [total_files |-> 0, extensible_files |-> 0, patched_files |-> <<>>,
             success |-> FALSE, note |-> "none"]

NoPrev == [simulate |-> TRUE, result |-> NoResult, disk |-> <<>>,
           early |-> FALSE, raised |-> FALSE]

Excs == {"PermissionError", "IsADirectoryError", "OSError", "UnsupportedOperation"}

----
\* patch_wav_files, one iteration of the loop over wav_files.

RwMode(sim) == IF sim THEN "rb" ELSE "rb+"

\* A mutation of IsExtensible: only the low byte of the tag is compared.
IsExtensibleLowByte(format_id) == format_id % 256 = WAV_EXTENSIBLE % 256

\* if format_id == 65534
IsExtensible(format_id) == format_id = WAV_EXTENSIBLE

\* A mutation of Counted: the path is listed only when the file is patched.
CountedListsPatched(st, path, sim) ==
    [n |-> st.n + 1, list |-> IF sim THEN st.list ELSE Append(st.list, path)]

\* extensible_files += 1 and patched_file_list.append(str(path)), in both
\* modes, on the counters st = [n, list].
Counted(st, path, sim) == [n |-> st.n + 1, list |-> Append(st.list, path)]

\* A mutation of Classify: the path is appended whatever the tag is.
ClassifyListsAll(st, format_id, path, sim) ==
    [n    |-> IF IsExtensible(format_id) THEN st.n + 1 ELSE st.n,
     list |-> Append(st.list, path)]

\* The counters after the tag of `path` was read: they count the file when
\* the tag is 65534.
Classify(st, format_id, path, sim) ==
    IF IsExtensible(format_id) THEN Counted(st, path, sim) ELSE st

\* A mutation of WritesPatch: the file is written in dry-run mode too.
WritesAlways(sim) == TRUE

\* A mutation of WritesPatch: the test of simulate is inverted.
WritesInverted(sim) == sim

\* if not simulate: the patch is written.
WritesPatch(sim) == ~sim

\* A mutation of SeekCur: the seek back to the tag is lost.
SeekCurLost(pos, delta) == pos

\* f.seek(delta, 1): the new position (a negative one raises OSError).
SeekCur(pos, delta) == pos + delta

\* if verbose and idx % 100 == 0, with i the 1-based index of the file.
ProgressDue(vb, i) == vb /\ i % ProgressEvery = 0

\* A mutation of AfterError: the handler leaves the loop (break for continue).
AfterErrorBreak(i, total) == total

\* The number of files consumed once the handler of an exception raised by
\* the i-th of `total` files has run: continue goes on with the next file.
AfterError(i, total) == i

\* print(f"[ERROR] ...") of the two handlers.
ErrorLines(vb, exc, p) ==
    IF ~vb THEN <<>>
    ELSE IF exc = "PermissionError"
         THEN <<Line("[ERROR] Permission denied", p, 0, 0)>>
         ELSE <<Line("[ERROR]", p, 0, 0)>>

\* The body of the try block up to the end of the with statement, for the
\* entry e at path p, the counters st = [n, list] and the I/O step `fault` at
\* which the environment raises an error: the exception raised ("none"
\* when none), the counters, the bytes of the file and the events, in order.
\* The event of an exception names the phase it was raised in: "scan" (open,
\* seek to the tag, read) or "patch" (seek back, write).
ScanFile(e, p, sim, vb, fault, st) ==
    LET rwmode == RwMode(sim)
        opening == <<Ev("open", rwmode, p, 0, 0, <<>>)>>
        Raised(exc, stage, st2, evs) ==
            [exc |-> exc, st |-> st2, data |-> e.data,
             events |-> evs \o <<Ev(exc, stage, p, 0, 0, <<>>)>>
                            \o ErrorLines(vb, exc, p)]
        bs == ReadAt(e.data, TagOffset, TagLen)
        pos == TagOffset + Len(bs)
        format_id == FromBytesLE(bs)
        st2 == Classify(st, format_id, p, sim)
        status == IF vb
                  THEN <<Line(IF sim THEN "[FOUND]" ELSE "[PATCHED]", p, 0, 0)>>
                  ELSE <<>>
        back == SeekCur(pos, 0 - TagLen)
        wr == Ev("write", rwmode, p, back, 0, PCM_BYTES)
    IN  IF OpenError(e, rwmode) # "none"
            THEN Raised(OpenError(e, rwmode), "scan", st, opening)
        ELSE IF fault = "open" THEN Raised("OSError", "scan", st, opening)
        ELSE IF fault = "seek" THEN Raised("OSError", "scan", st, opening)
        ELSE IF fault = "read" THEN Raised("OSError", "scan", st, opening)
        ELSE IF ~IsExtensible(format_id)
            THEN [exc |-> "none", st |-> st2, data |-> e.data, events |-> opening]
        ELSE IF ~WritesPatch(sim)
            THEN [exc |-> "none", st |-> st2, data |-> e.data,
                  events |-> opening \o status]
        ELSE IF back < 0
            THEN Raised("OSError", "patch", st2, opening \o status)
        ELSE IF rwmode = "rb"
            THEN Raised("UnsupportedOperation", "patch", st2, opening \o status)
        ELSE IF fault = "write"
            THEN Raised("OSError", "patch", st2, opening \o status)
        ELSE [exc |-> "none", st |-> st2,
              data |-> WriteAt(e.data, back, PCM_BYTES),
              events |-> (opening \o status) \o <<wr>>]

----
\* The state after construction: a command line or a direct call, and a tree.

InitCommon ==
    /\ caller \in {"main", "api"}
    /\ argv \in (IF caller = "main" THEN {"ok", "usage"} ELSE {"ok"})
    /\ args \in (IF caller = "main"
                 THEN [patch : BOOLEAN, quiet : BOOLEAN, list : BOOLEAN]
                 ELSE {[patch |-> FALSE, quiet |-> FALSE, list |-> FALSE]})
    /\ dirKind \in {"missing", "notdir", "dir"}
    /\ simulate \in (IF caller = "main" THEN {TRUE} ELSE BOOLEAN)
    /\ verbose \in (IF caller = "main" THEN {TRUE} ELSE BOOLEAN)
    /\ pc = IF caller = "main" THEN "main" ELSE "call"
    /\ wav_files = <<>>
    /\ total_files = 0
    /\ extensible_files = 0
    /\ patched_file_list = <<>>
    /\ idx = 0
    /\ result = NoResult
    /\ exitCode = -1
    /\ trace = <<>>
    /\ second = FALSE
    /\ fresh = FALSE
    /\ prev = NoPrev

Init ==
    /\ InitCommon
    /\ tree0 \in (IF dirKind = "dir" THEN Trees ELSE {<<>>})
    /\ before = tree0
    /\ disk = tree0
    /\ flaky = 1..Len(tree0)

----
\* A mutation of ValidateDir: the is_dir() check is missing.
ValidateDirExistsOnly(kind) ==
    IF kind = "missing" THEN "Error: Directory does not exist" ELSE "none"

\* The validation of the directory argument: the error printed, or "none".
ValidateDir(kind) ==
    IF kind = "missing" THEN "Error: Directory does not exist"
    ELSE IF kind # "dir" THEN "Error: Path is not a directory"
    ELSE "none"

\* main(), lines 150-166: parse the command line, validate the directory
\* argument and call patch_wav_files.
MainValidate ==
    /\ pc = "main"
    /\ IF argv = "usage"
       THEN /\ exitCode' = 2
            /\ pc' = "exit"
            /\ trace' = Append(trace, Line("usage", 0, 0, 0))
            /\ UNCHANGED <<simulate, verbose>>
       ELSE IF ValidateDir(dirKind) # "none"
       THEN /\ exitCode' = 1
            /\ pc' = "exit"
            /\ trace' = Append(trace, Line(ValidateDir(dirKind), 0, 0, 0))
            /\ UNCHANGED <<simulate, verbose>>
       ELSE /\ simulate' = ~args.patch
            /\ verbose' = ~args.quiet
            /\ pc' = "call"
            /\ UNCHANGED <<exitCode, trace>>
    /\ UNCHANGED <<argv, dirKind, args, caller, tree0, before, disk, flaky,
                   wav_files, total_files, extensible_files, patched_file_list,
                   idx, result, second, fresh, prev>>

\* patch_wav_files, lines 39-73: the existence check, discovery, the
\* zero-files result and the banner.
ScanStart ==
    /\ pc = "call"
    /\ extensible_files' = 0
    /\ patched_file_list' = <<>>
    /\ idx' = 0
    /\ IF dirKind = "missing"
       THEN /\ result' = [total_files |-> 0, extensible_files |-> 0,
                          patched_files |-> <<>>, success |-> FALSE,
                          note |-> "Directory does not exist"]
            /\ pc' = "returned"
            /\ trace' = Append(trace, Ev("call", "", 0, 0, 0, <<>>))
            /\ UNCHANGED <<wav_files, total_files>>
       ELSE LET found == IF dirKind = "dir" THEN RGlob(disk) ELSE <<>>
            IN  /\ wav_files' = found
                /\ total_files' = Len(found)
                /\ IF Len(found) = 0
                   THEN /\ result' = [total_files |-> 0, extensible_files |-> 0,
                                      patched_files |-> <<>>, success |-> TRUE,
                                      note |-> "No WAV files found"]
                        /\ pc' = "returned"
                        /\ trace' = Append(trace, Ev("call", "", 0, 0, 0, <<>>))
                               \o (IF verbose
                                   THEN <<Line("No *.wav files could be found!", 0, 0, 0)>>
                                   ELSE <<>>)
                   ELSE /\ pc' = "loop"
                        /\ trace' = Append(trace, Ev("call", "", 0, 0, 0, <<>>))
                               \o (IF verbose
                                   THEN <<Line(IF simulate THEN "DRY-RUN (scan only)"
                                               ELSE "PATCH MODE", 0, 0, Len(found))>>
                                   ELSE <<>>)
                        /\ UNCHANGED result
    /\ UNCHANGED <<argv, dirKind, args, caller, tree0, before, disk, flaky,
                   simulate, verbose, exitCode, second, fresh, prev>>

\* patch_wav_files, lines 75-105: one iteration of the loop, with its
\* exception handlers and the progress line.
ProcessFile ==
    /\ pc = "loop"
    /\ idx < total_files
    /\ \E fault \in Faults :
        /\ fault # "none" => wav_files[idx + 1] \in flaky
        /\ LET p == wav_files[idx + 1]
               r == ScanFile(disk[p], p, simulate, verbose, fault,
                             [n |-> extensible_files, list |-> patched_file_list])
           IN  /\ extensible_files' = r.st.n
               /\ patched_file_list' = r.st.list
               /\ disk' = [disk EXCEPT ![p].data = r.data]
               /\ idx' = IF r.exc = "none" THEN idx + 1
                         ELSE AfterError(idx + 1, total_files)
               /\ trace' = (trace \o r.events)
                     \o (IF r.exc = "none" /\ ProgressDue(verbose, idx + 1)
                         THEN <<Line("Progress", 0, idx + 1, total_files)>>
                         ELSE <<>>)
    /\ UNCHANGED <<argv, dirKind, args, caller, tree0, before, flaky, simulate,
                   verbose, pc, wav_files, total_files, result, exitCode,
                   second, fresh, prev>>

\* patch_wav_files, lines 107-112: the result of a completed loop.
ScanReturn ==
    /\ pc = "loop"
    /\ idx >= total_files
    /\ result' = [total_files |-> total_files,
                  extensible_files |-> extensible_files,
                  patched_files |-> patched_file_list,
                  success |-> TRUE, note |-> "none"]
    /\ pc' = "returned"
    /\ UNCHANGED <<argv, dirKind, args, caller, tree0, before, disk, flaky,
                   simulate, verbose, wav_files, total_files, extensible_files,
                   patched_file_list, idx, exitCode, trace, second, fresh, prev>>

\* main(), lines 168-188: the error of a failed scan, or the summary.
MainFinish ==
    /\ pc = "returned"
    /\ caller = "main"
    /\ pc' = "exit"
    /\ IF ~result.success
       THEN /\ exitCode' = 1
            /\ trace' = Append(trace, Line("Error", 0, 0, 0))
       ELSE /\ exitCode' = 0
            /\ trace' = (trace \o <<Line("SUMMARY", 0, result.extensible_files,
                                         result.total_files)>>)
                  \o (IF args.patch /\ result.extensible_files > 0
                      THEN <<Line("Files patched", 0, result.extensible_files, 0)>>
                      ELSE <<>>)
                  \o (IF args.list /\ result.extensible_files > 0
                      THEN [i \in 1..Len(result.patched_files) |->
                               Line("listed", result.patched_files[i], 0, 0)]
                      ELSE <<>>)
    /\ UNCHANGED <<argv, dirKind, args, caller, tree0, before, disk, flaky,
                   simulate, verbose, wav_files, total_files, extensible_files,
                   patched_file_list, idx, result, second, fresh, prev>>

\* The finished call raised an error on some file.
RaisedAny == \E i \in 1..Len(trace) : trace[i].ev \in Excs

\* The finished call raised an error on some file before it read the tag.
RaisedEarly ==
    \E i \in 1..Len(trace) :
        trace[i].ev \in Excs /\ trace[i].what = "scan"

\* A caller of patch_wav_files calls it a second time: with the same
\* arguments on the tree the first call left, or in the other mode on a
\* fresh copy of the tree the first call was given.
Rerun ==
    /\ pc = "returned"
    /\ caller = "api"
    /\ ~second
    /\ second' = TRUE
    /\ prev' = [simulate |-> simulate, result |-> result, disk |-> disk,
                early |-> RaisedEarly, raised |-> RaisedAny]
    /\ \E f \in BOOLEAN :
        /\ fresh' = f
        /\ simulate' = IF f THEN ~simulate ELSE simulate
        /\ disk' = IF f THEN tree0 ELSE disk
        /\ before' = IF f THEN tree0 ELSE disk
    /\ pc' = "call"
    /\ trace' = <<>>
    /\ result' = NoResult
    /\ UNCHANGED <<argv, dirKind, args, caller, tree0, flaky, verbose, wav_files,
                   total_files, extensible_files, patched_file_list, idx,
                   exitCode>>

Program == MainValidate \/ ScanStart \/ ProcessFile \/ ScanReturn \/ MainFinish

Next == Program \/ Rerun

Spec == Init /\ [][Next]_vars

----
\* A direct call of patch_wav_files on a tree large enough for progress
\* lines: 99, 100 or 201 *.wav files, nearly all of them empty, with a
\* read-only extensible file at position roErr (none when roErr = 0) and
\* I/O faults possible on a few chosen paths.
BigTree(n, roErr) ==
    [i \in 1..n |-> IF i = roErr THEN ExtRO
                    ELSE IF i = 1 THEN ExtTrail ELSE EmptyWav]

InitProgress ==
    /\ InitCommon
    /\ caller = "api"
    /\ dirKind = "dir"
    /\ \E n \in {ProgressEvery - 1, ProgressEvery, 2 * ProgressEvery + 1},
          roErr \in {0, ProgressEvery} :
            tree0 = BigTree(n, roErr)
    /\ before = tree0
    /\ disk = tree0
    /\ flaky \in SUBSET {ProgressEvery - 1, ProgressEvery, 2 * ProgressEvery}

NextProgress == ScanStart \/ ProcessFile \/ ScanReturn

SpecProgress == InitProgress /\ [][NextProgress]_vars

----
\* Definitions the properties share.

\* The format tag of a file's bytes, as the scan decodes it.
Tag(data) == FromBytesLE(ReadAt(data, TagOffset, TagLen))

\* The discovered regular files of tree t whose tag is 65534.
Matching(t) ==
    {p \in 1..Len(t) : t[p].wav /\ t[p].kind = "file" /\ Tag(t[p].data) = 65534}

Raises(p) == \E i \in 1..Len(trace) : trace[i].ev \in Excs /\ trace[i].path = p

RaisesEarly(p) ==
    \E i \in 1..Len(trace) :
        /\ trace[i].ev \in Excs
        /\ trace[i].path = p
        /\ trace[i].what = "scan"

IsOpen(x) == x.ev = "open"
IsWrite(x) == x.ev = "write"
IsProgress(x) == x.ev = "print" /\ x.what = "Progress"

Opens == SelectSeq(trace, IsOpen)
Writes == SelectSeq(trace, IsWrite)
Range(q) == {q[i] : i \in 1..Len(q)}

\* new is old with bytes 20-21 (0-based) set to 01 00 and nothing else changed.
PatchedFrom(old, new) ==
    /\ Len(new) = Len(old)
    /\ Len(new) >= 22
    /\ new[21] = 1
    /\ new[22] = 0
    /\ \A i \in 1..Len(old) : i \notin {21, 22} => new[i] = old[i]

\* A call of patch_wav_files has returned.
Returned == pc = "returned"

----
\* C1 (as claimed): after a patch-mode call on a tree with N matching files,
\* extensible_files = N and every matching file has 01 00 at bytes 20-21,
\* every other byte and its length unchanged.
C1_AsClaimed ==
    (Returned /\ ~simulate /\ dirKind = "dir") =>
        /\ result.extensible_files = Cardinality(Matching(before))
        /\ \A p \in Matching(before) : PatchedFrom(before[p].data, disk[p].data)

\* C1 (amended): after a patch-mode call, extensible_files is the number of
\* matching files on which open, seek and read raised no error, and every
\* matching file on which no error was raised at all has 01 00 at bytes
\* 20-21, every other byte and its length unchanged.
C1_PatchModePatchesMatching ==
    (Returned /\ ~simulate /\ dirKind = "dir") =>
        /\ result.extensible_files =
               Cardinality({p \in Matching(before) : ~RaisesEarly(p)})
        /\ \A p \in Matching(before) :
               ~Raises(p) => PatchedFrom(before[p].data, disk[p].data)

\* C1 witness: a patch-mode call has returned after patching one matching
\* file and failing to open another.
C1_Witness ==
    /\ Returned /\ ~simulate
    /\ \E p, q \in Matching(before) :
          /\ ~Raises(p) /\ RaisesEarly(q)
          /\ disk[p].data # before[p].data
    /\ result.extensible_files = 1

\* C2 (as claimed): after a dry-run call no file has changed and
\* extensible_files is the number of files whose tag is 65534, whatever
\* errors were raised.
C2_AsClaimed ==
    (Returned /\ simulate /\ dirKind = "dir") =>
        /\ disk = before
        /\ result.extensible_files = Cardinality(Matching(before))

\* C2 (amended): at every point of a dry-run call no file has changed, and
\* when it has returned extensible_files is the number of files whose tag is
\* 65534 and on which no error was raised.
C2_DryRunChangesNothing ==
    simulate =>
        /\ disk = before
        /\ (Returned /\ dirKind = "dir") =>
              result.extensible_files =
                  Cardinality({p \in Matching(before) : ~Raises(p)})

\* C2 witness: a dry-run call has returned having counted one matching file
\* and having failed on another.
C2_Witness ==
    /\ Returned /\ simulate
    /\ \E p, q \in Matching(before) : ~Raises(p) /\ Raises(q)
    /\ result.extensible_files = 1

C4_CountsAgree ==
    /\ extensible_files = Len(patched_file_list)
    /\ total_files >= extensible_files
    /\ result.extensible_files = Len(result.patched_files)
    /\ result.total_files >= result.extensible_files

\* C4 witness: inside the loop, after a matching file was counted and before
\* the last file is processed.
C4_Witness ==
    /\ pc = "loop"
    /\ extensible_files >= 1
    /\ idx < total_files

\* The bytes a call without errors leaves in the file at path p.
C5_Expected(p) ==
    IF Tag(before[p].data) = 65534 /\ ~simulate
    THEN WriteAt(before[p].data, TagOffset, <<1, 0>>)
    ELSE before[p].data

\* C5: when the loop has run to its end, every discovered file was opened
\* once, in discovery order, the result has success = TRUE and total_files
\* the number of discovered files, and every file that raised no error is
\* listed exactly when its tag is 65534 and has the bytes a patch of it (or,
\* otherwise, no write) leaves.
C5_ErrorsIsolated ==
    (Returned /\ dirKind = "dir" /\ wav_files # <<>>) =>
        /\ [i \in 1..Len(Opens) |-> Opens[i].path] = wav_files
        /\ wav_files = RGlob(before)
        /\ result.success
        /\ result.total_files = Len(wav_files)
        /\ \A p \in Range(wav_files) :
              ~Raises(p) =>
                  /\ (p \in Range(result.patched_files)
                        <=> Tag(before[p].data) = 65534)
                  /\ disk[p].data = C5_Expected(p)

\* C5 witness: the call has returned after an error on the first file and a
\* patch of a later one.
C5_Witness ==
    /\ Returned /\ ~simulate /\ Len(wav_files) >= 2
    /\ Raises(wav_files[1])
    /\ \E p \in Range(wav_files) :
          ~Raises(p) /\ disk[p].data # before[p].data

\* The discovered regular files shorter than 22 bytes.
ShortFiles ==
    {p \in 1..Len(before) :
        before[p].wav /\ before[p].kind = "file" /\ Len(before[p].data) < 22}

\* C6: a file shorter than 22 bytes is never counted, never listed, never
\* written, and the files after it are still processed.
C6_ShortFilesSkipped ==
    /\ \A p \in ShortFiles :
          /\ p \notin Range(patched_file_list)
          /\ disk[p] = before[p]
          /\ \A i \in 1..Len(Writes) : Writes[i].path # p
    /\ (Returned /\ dirKind = "dir" /\ ShortFiles # {}) =>
          /\ result.success
          /\ result.extensible_files =
                 Cardinality(Range(result.patched_files) \ ShortFiles)
          /\ \A q \in Range(wav_files) : \E i \in 1..Len(Opens) : Opens[i].path = q

\* C6 witness: the call has returned after a 21-byte file whose byte 20 is FE
\* and, after it, a file that was patched.
C6_Witness ==
    /\ Returned /\ ~simulate /\ Len(wav_files) >= 2
    /\ wav_files[1] \in ShortFiles
    /\ Len(before[wav_files[1]].data) = 21
    /\ before[wav_files[1]].data[21] = 254
    /\ Len(Writes) = 1

\* patch_wav_files was called.
Called == \E i \in 1..Len(trace) : trace[i].ev = "call"

\* The exit rule of C7, for a CLI run that has exited.
C7_ExitRule ==
    /\ exitCode = 1 <=>
          (dirKind \in {"missing", "notdir"} \/ (Called /\ ~result.success))
    /\ exitCode # 1 => exitCode = 0
    /\ (exitCode = 1 /\ dirKind \in {"missing", "notdir"}) =>
          (~Called /\ Opens = <<>> /\ disk = tree0)

\* C7 (as claimed): the exit code of the CLI is 1 exactly when the directory
\* argument is missing or no directory or the scan fails, and 0 in every
\* other case; on a bad directory argument the scan is not called and no file
\* is opened.
C7_AsClaimed == (pc = "exit") => C7_ExitRule

\* C7 (amended): when the command line parses, the exit code of the CLI is 1
\* exactly when the directory argument is missing or no directory or the
\* scan fails, and 0 in every other case; on a bad directory argument the
\* scan is not called and no file is opened.
C7_ExitCodes == (pc = "exit" /\ argv = "ok") => C7_ExitRule

\* C7 witness: the CLI has exited with 1 on a path that is not a directory.
C7_Witness ==
    pc = "exit" /\ argv = "ok" /\ dirKind = "notdir" /\ exitCode = 1

\* The second call counted and listed what the first did.
C8_SameAggregate ==
    /\ result.extensible_files = prev.result.extensible_files
    /\ result.patched_files = prev.result.patched_files

C9_WritesOnlyMatching ==
    /\ \A i \in 1..Len(Writes) :
          /\ ~simulate
          /\ Writes[i].path \in Matching(before)
          /\ Writes[i].n = 20
          /\ Writes[i].bytes = <<1, 0>>
          /\ \A j \in 1..Len(Writes) : Writes[j].path = Writes[i].path => j = i
    /\ \A p \in 1..Len(before) :
          /\ p \notin Matching(before) => disk[p] = before[p]
          /\ p \in Matching(before) =>
                \/ disk[p] = before[p]
                \/ /\ \E i \in 1..Len(Writes) : Writes[i].path = p
                   /\ PatchedFrom(before[p].data, disk[p].data)
    /\ Len(disk) = Len(before)

\* C9 witness: a patch-mode call has returned after one write, on a tree that
\* also holds a discovered file with another tag.
C9_Witness ==
    /\ Returned /\ ~simulate
    /\ Len(Writes) = 1
    /\ \E p \in Range(wav_files) :
          before[p].kind = "file" /\ Tag(before[p].data) = 1

\* The progress line of the k-th file.
ProgressAt(k) == Line("Progress", 0, k, total_files)

\* The position in the trace of the open of the k-th file, 0 when not opened.
OpenPos(k) ==
    IF \E j \in 1..Len(trace) : IsOpen(trace[j]) /\ trace[j].path = wav_files[k]
    THEN CHOOSE j \in 1..Len(trace) : IsOpen(trace[j]) /\ trace[j].path = wav_files[k]
    ELSE 0

\* C10 (as claimed): when a verbose call has returned, the trace holds a
\* progress line for k exactly when k is a multiple of 100, between the open
\* of the k-th file and the open of the next, whatever errors were raised;
\* a quiet call prints no progress line.
C10_AsClaimed ==
    (Returned /\ wav_files # <<>>) =>
        IF verbose
        THEN \A k \in 1..total_files :
                IF k % 100 = 0
                THEN \E j \in 1..Len(trace) :
                        /\ trace[j] = ProgressAt(k)
                        /\ OpenPos(k) < j
                        /\ k < total_files => j < OpenPos(k + 1)
                ELSE \A j \in 1..Len(trace) : trace[j] # ProgressAt(k)
        ELSE \A j \in 1..Len(trace) : ~IsProgress(trace[j])

====
